---------------------------- MODULE Spec2Model ----------------------------
(***************************************************************************)
(* Model of server.js, the remoteness scoring API: the ZIP store           *)
(* (zipData, zipIndex, loadZipData), the scoring engine                    *)
(* (computeRemotenessComponents, categorizeScore, suggestedSurcharge,      *)
(* normalizeMonth) and the Express handlers /location-score, /trip-score   *)
(* and /reload-zips.                                                       *)
(*                                                                         *)
(* JavaScript values are tagged one-field records, so that values of       *)
(* different types can be compared:                                        *)
(*   [undef |-> TRUE]  undefined                                           *)
(*   [null |-> TRUE]   null                                                *)
(*   [num |-> n]       a number                                            *)
(*   [bool |-> b]      a boolean                                           *)
(*   [str |-> s]       a string                                            *)
(*   [text |-> cs]     a string held as the sequence of its characters     *)
(*   [obj |-> r]       an object whose own properties are r's fields       *)
(*   [fn |-> name]     a function                                          *)
(*   [arr |-> s]       an array                                            *)
(* Numbers with a fractional part are held in hundredths where the code    *)
(* compares them with 0.7 and 0.4 (carrier_scarcity_index).                *)
(***************************************************************************)
EXTENDS Integers, Sequences, FiniteSets, TLC

VARIABLES
    zipData,    \* the parsed zips.json: a sequence of values
    zipIndex,   \* the object that maps String(zip) to its record
    log,        \* the last line loadZipData wrote to the console
    req,        \* the last request received (or, for the engine, the call made)
    resp,       \* the last response sent (or the call's result)
    running,    \* the handlers begun and not ended, {} between handlers
    raw,        \* loadZipData's file content while it runs
    loadPos,    \* the position of zipData.forEach while it runs
    local,      \* /trip-score's monthNum and pickupRecord while it runs
    seen,       \* the zipIndex each lookup of the last request read
    snapshot    \* the zipIndex the last completed loadZipData left

vars ==
    <<zipData, zipIndex, log, req, resp, running, raw, loadPos, local, seen,
      snapshot>>

---------------------------------------------------------------------------
(* JavaScript values *)

Undefined == [undef |-> TRUE]
Null == [null |-> TRUE]
Num(n) == [num |-> n]
Bool(b) == [bool |-> b]
Str(s) == [str |-> s]
Text(cs) == [text |-> cs]
Obj(r) == [obj |-> r]
Fn(name) == [fn |-> name]

IsObj(v) == "obj" \in DOMAIN v

\* x ?? d
Coalesce(x, d) == IF x = Undefined \/ x = Null THEN d ELSE x

\* !!x
Truthy(v) ==
    IF "bool" \in DOMAIN v THEN v.bool
    ELSE IF "num" \in DOMAIN v THEN v.num # 0
    ELSE IF "str" \in DOMAIN v THEN v.str # ""
    ELSE IF "text" \in DOMAIN v THEN v.text # <<>>
    ELSE IF "obj" \in DOMAIN v THEN TRUE
    ELSE IF "fn" \in DOMAIN v THEN TRUE
    ELSE FALSE

\* o.f : an own property, else undefined (read on a record of the dataset or on
\* a function, which has none of the dataset's fields)
Get(o, f) ==
    IF IsObj(o) /\ f \in DOMAIN o.obj THEN o.obj[f] ELSE Undefined

\* ToNumber for the operands of <, > that the dataset holds
ToNumber(v) ==
    IF "num" \in DOMAIN v THEN v.num
    ELSE IF "bool" \in DOMAIN v THEN (IF v.bool THEN 1 ELSE 0)
    ELSE 0

Digit == <<"0", "1", "2", "3", "4", "5", "6", "7", "8", "9">>

RECURSIVE DecimalString(_)
DecimalString(n) ==
    IF n < 10 THEN Digit[n + 1]
    ELSE DecimalString(n \div 10) \o Digit[(n % 10) + 1]

\* String(v) for the values a zip field or a zip parameter holds
String(v) ==
    IF "str" \in DOMAIN v THEN v.str
    ELSE IF "num" \in DOMAIN v THEN
        (IF v.num < 0 THEN "-" \o DecimalString(-v.num) ELSE DecimalString(v.num))
    ELSE IF "null" \in DOMAIN v THEN "null"
    ELSE "undefined"

---------------------------------------------------------------------------
(* normalizeMonth *)

NaN == [nan |-> TRUE]

DigitValue(c) == CHOOSE d \in 0..9 : Digit[d + 1] = c
IsDigit(c) == \E d \in 0..9 : Digit[d + 1] = c

RECURSIVE DigitPrefixValue(_, _, _)
\* the value of the longest prefix of digits of cs from position i on, acc so far
DigitPrefixValue(cs, i, acc) ==
    IF i > Len(cs) \/ ~IsDigit(cs[i]) THEN acc
    ELSE DigitPrefixValue(cs, i + 1, 10 * acc + DigitValue(cs[i]))

RECURSIVE SkipSpaces(_, _)
SkipSpaces(cs, i) ==
    IF i <= Len(cs) /\ cs[i] = " " THEN SkipSpaces(cs, i + 1) ELSE i

\* parseInt(v, 10) of a query parameter: a string, or undefined (whose string,
\* "undefined", starts with no digit)
parseInt(v) ==
    IF "text" \notin DOMAIN v THEN NaN
    ELSE
        LET cs == v.text
            s == SkipSpaces(cs, 1)
            neg == s <= Len(cs) /\ cs[s] = "-"
            d == IF s <= Len(cs) /\ cs[s] \in {"-", "+"} THEN s + 1 ELSE s
        IN  IF d > Len(cs) \/ ~IsDigit(cs[d]) THEN NaN
            ELSE LET mag == DigitPrefixValue(cs, d, 0)
                 IN  Num(IF neg THEN -mag ELSE mag)

\* now is new Date().getMonth() + 1
normalizeMonth(monthParam, now) ==
    LET m == parseInt(monthParam)
    IN  IF m = NaN \/ m.num < 1 \/ m.num > 12 THEN now ELSE m.num

---------------------------------------------------------------------------
(* Core scoring logic *)

\* the first threshold taken inclusively
densityScoreInclusive(density) ==
    IF density # Null
    THEN (IF ToNumber(density) <= 150 THEN 2
          ELSE IF ToNumber(density) < 500 THEN 1 ELSE 0)
    ELSE 0

densityScoreOf(density) ==
    IF density # Null
    THEN (IF ToNumber(density) < 150 THEN 2
          ELSE IF ToNumber(density) < 500 THEN 1 ELSE 0)
    ELSE 0

metroAccessScoreOf(driveCity, driveInterstate) ==
    (IF driveCity # Null
     THEN (IF ToNumber(driveCity) > 90 THEN 2
           ELSE IF ToNumber(driveCity) > 60 THEN 1 ELSE 0)
     ELSE 0)
    + (IF driveInterstate # Null /\ ToNumber(driveInterstate) > 30 THEN 1 ELSE 0)

winterMonths == {11, 12, 1, 2, 3}

\* the winter effect counted twice
roadTerrainWinterTwice(isMountain, isIsland, winterRisk, month) ==
    (IF isMountain THEN 1 ELSE 0)
    + (IF isIsland THEN 1 ELSE 0)
    + (IF winterRisk /\ month \in winterMonths THEN 2 ELSE 0)

roadTerrainScoreOf(isMountain, isIsland, winterRisk, month) ==
    (IF isMountain THEN 1 ELSE 0)
    + (IF isIsland THEN 1 ELSE 0)
    + (IF winterRisk /\ month \in winterMonths THEN 1 ELSE 0)

\* carrierScarcity in hundredths: > 0.7 is > 70, > 0.4 is > 40
carrierScoreOf(carrierScarcity) ==
    IF ToNumber(carrierScarcity) > 70 THEN 2
    ELSE IF ToNumber(carrierScarcity) > 40 THEN 1 ELSE 0

\* the sum with one component left out
totalScoreWithoutCarrier(c) ==
    c.densityScore + c.metroAccessScore + c.roadTerrainScore

totalScoreOf(c) ==
    c.densityScore + c.metroAccessScore + c.roadTerrainScore + c.carrierScore

computeRemotenessComponents(zipRecord, month) ==
    LET zero == [densityScore |-> 0, metroAccessScore |-> 0,
                 roadTerrainScore |-> 0, carrierScore |-> 0, totalScore |-> 0]
    IN  IF ~Truthy(zipRecord) THEN zero
        ELSE
            LET density == Coalesce(Get(zipRecord, "population_density"), Null)
                driveCity == Coalesce(Get(zipRecord, "drive_time_city_100k_min"), Null)
                driveInterstate ==
                    Coalesce(Get(zipRecord, "drive_time_interstate_min"), Null)
                isMountain == Truthy(Get(zipRecord, "is_mountain"))
                isIsland == Truthy(Get(zipRecord, "is_island"))
                winterRisk == Truthy(Get(zipRecord, "winter_risk"))
                carrierScarcity ==
                    Coalesce(Get(zipRecord, "carrier_scarcity_index"), Num(0))
                c == [zero EXCEPT
                        !.densityScore = densityScoreOf(density),
                        !.metroAccessScore =
                            metroAccessScoreOf(driveCity, driveInterstate),
                        !.roadTerrainScore =
                            roadTerrainScoreOf(isMountain, isIsland, winterRisk, month),
                        !.carrierScore = carrierScoreOf(carrierScarcity)]
            IN  [c EXCEPT !.totalScore = totalScoreOf(c)]

\* the second boundary taken exclusively
categorizeScoreExclusive(totalScore) ==
    IF totalScore <= 2 THEN "URBAN_EASY"
    ELSE IF totalScore < 4 THEN "NORMAL"
    ELSE IF totalScore <= 6 THEN "RURAL_DIFFICULT"
    ELSE "REMOTE_PREMIUM"

categorizeScore(totalScore) ==
    IF totalScore <= 2 THEN "URBAN_EASY"
    ELSE IF totalScore <= 4 THEN "NORMAL"
    ELSE IF totalScore <= 6 THEN "RURAL_DIFFICULT"
    ELSE "REMOTE_PREMIUM"

suggestedSurcharge(category) ==
    CASE category = "URBAN_EASY" ->
            [currency |-> "USD", type |-> "lump_sum", min |-> 0, max |-> 0]
      [] category = "NORMAL" ->
            [currency |-> "USD", type |-> "lump_sum", min |-> 25, max |-> 50]
      [] category = "RURAL_DIFFICULT" ->
            [currency |-> "USD", type |-> "lump_sum", min |-> 75, max |-> 150]
      [] category = "REMOTE_PREMIUM" ->
            [currency |-> "USD", type |-> "lump_sum", min |-> 150, max |-> 300]
      [] OTHER ->
            [currency |-> "USD", type |-> "lump_sum", min |-> 0, max |-> 0]

\* the sum with the pickup's max taken for both endpoints
totalSurchargePickupTwice(pickupSurcharge, deliverySurcharge) ==
    [currency |-> "USD", type |-> "lump_sum",
     min |-> pickupSurcharge.min + deliverySurcharge.min,
     max |-> pickupSurcharge.max + pickupSurcharge.max]

\* total surcharge = sum of endpoints
totalSurchargeOf(pickupSurcharge, deliverySurcharge) ==
    [currency |-> "USD", type |-> "lump_sum",
     min |-> pickupSurcharge.min + deliverySurcharge.min,
     max |-> pickupSurcharge.max + deliverySurcharge.max]

---------------------------------------------------------------------------
(* The ZIP store: zips.json, zipData, zipIndex, loadZipData *)

Arr(s) == [arr |-> s]
IsArr(v) == "arr" \in DOMAIN v

\* {}
EmptyObject == [k \in {} |-> Undefined]

\* index[key] = value
Put(index, key, value) ==
    [k \in DOMAIN index \cup {key} |-> IF k = key THEN value ELSE index[k]]

\* Properties every object literal inherits from Object.prototype (these and
\* others of the same kind); each is a function
ObjectPrototypeKeys ==
    {"constructor", "hasOwnProperty", "isPrototypeOf", "propertyIsEnumerable",
     "toLocaleString", "toString", "valueOf"}

\* zipIndex[key]: an own property, else an inherited one, else undefined
Lookup(index, key) ==
    IF key \in DOMAIN index THEN index[key]
    ELSE IF key \in ObjectPrototypeKeys THEN Fn(key)
    ELSE Undefined

\* What zips.json holds when it is read
Unreadable == [file |-> "unreadable"]
Malformed == [file |-> "malformed"]
Json(v) == [file |-> "json", value |-> v]

\* The body of zipData.forEach: if (z.zip) zipIndex[String(z.zip)] = z,
\* where reading a property of null throws a TypeError
Throws == [throws |-> TRUE]

\* every record indexed, with or without a zip
indexRecordUnguarded(index, z) ==
    IF z = Null \/ z = Undefined THEN Throws
    ELSE Put(index, String(Get(z, "zip")), z)

indexRecord(index, z) ==
    IF z = Null \/ z = Undefined THEN Throws
    ELSE IF Truthy(Get(z, "zip")) THEN Put(index, String(Get(z, "zip")), z)
    ELSE index

RECURSIVE forEachRecord(_, _, _)
forEachRecord(data, i, index) ==
    IF i > Len(data) THEN index
    ELSE LET next == indexRecord(index, data[i])
         IN  IF next = Throws THEN Throws ELSE forEachRecord(data, i + 1, next)

\* The catch block; data and index are zipData and zipIndex as the failed try
\* left them
loadFailedKeepsIndex(data, index) ==
    [zipData |-> <<>>, zipIndex |-> index, log |-> [level |-> "error"]]

loadFailed(data, index) ==
    [zipData |-> <<>>, zipIndex |-> EmptyObject, log |-> [level |-> "error"]]

loadSucceeded(data, index) ==
    [zipData |-> data, zipIndex |-> index,
     log |-> [level |-> "log", loaded |-> Len(data)]]

\* loadZipData() run to its end on a file, from the globals data and index
loadZipData(file, data, index) ==
    IF file.file # "json" THEN loadFailed(data, index)
    ELSE IF ~IsArr(file.value) THEN loadFailed(file.value, EmptyObject)
    ELSE LET built == forEachRecord(file.value.arr, 1, EmptyObject)
         IN  IF built = Throws
             THEN loadFailed(file.value.arr, EmptyObject)
             ELSE loadSucceeded(file.value.arr, built)

---------------------------------------------------------------------------
(* Express handlers *)

Json200(body) == [status |-> 200, body |-> body]
JsonError(code, message) == [status |-> code, body |-> [error |-> message]]

\* the body of a scored endpoint
scored(record, monthNum) ==
    LET components == computeRemotenessComponents(record, monthNum)
        category == categorizeScore(components.totalScore)
    IN  [zip |-> Get(record, "zip"), city |-> Get(record, "city"),
         state |-> Get(record, "state"), components |-> components,
         category |-> category,
         suggested_surcharge |-> suggestedSurcharge(category)]

\* GET /location-score
locationScore(index, zip, month, now) ==
    IF ~Truthy(zip) THEN JsonError(400, "Missing required parameter: zip")
    ELSE
        LET monthNum == normalizeMonth(month, now)
            record == Lookup(index, String(zip))
        IN  IF ~Truthy(record)
            THEN JsonError(404, "ZIP " \o String(zip) \o " not found in dataset")
            ELSE LET s == scored(record, monthNum)
                 IN  Json200([zip |-> s.zip, city |-> s.city, state |-> s.state,
                              month |-> monthNum, components |-> s.components,
                              category |-> s.category,
                              suggested_surcharge |-> s.suggested_surcharge])

\* GET /trip-score, from the two lookups on
tripRespond(pickup_zip, delivery_zip, monthNum, pickupRecord, deliveryRecord) ==
    IF ~Truthy(pickupRecord)
    THEN JsonError(404, "Pickup ZIP " \o String(pickup_zip)
                            \o " not found in dataset")
    ELSE IF ~Truthy(deliveryRecord)
    THEN JsonError(404, "Delivery ZIP " \o String(delivery_zip)
                            \o " not found in dataset")
    ELSE
        LET pickup == scored(pickupRecord, monthNum)
            delivery == scored(deliveryRecord, monthNum)
        IN  Json200([month |-> monthNum, pickup |-> pickup, delivery |-> delivery,
                     total_suggested_surcharge |->
                         totalSurchargeOf(pickup.suggested_surcharge,
                                          delivery.suggested_surcharge)])

tripMissing(pickup_zip, delivery_zip) ==
    ~Truthy(pickup_zip) \/ ~Truthy(delivery_zip)

\* GET /trip-score
tripScore(index, pickup_zip, delivery_zip, month, now) ==
    IF tripMissing(pickup_zip, delivery_zip)
    THEN JsonError(400, "Missing required parameters: pickup_zip and delivery_zip")
    ELSE tripRespond(pickup_zip, delivery_zip, normalizeMonth(month, now),
                     Lookup(index, String(pickup_zip)),
                     Lookup(index, String(delivery_zip)))

\* an empty store answered as a failure
reloadZipsFailsWhenEmpty(data) ==
    IF data = <<>> THEN JsonError(500, "Reload failed")
    ELSE Json200([status |-> "reloaded", total_zips |-> Len(data)])

\* POST /reload-zips, after loadZipData()
reloadZips(data) ==
    Json200([status |-> "reloaded", total_zips |-> Len(data)])

---------------------------------------------------------------------------
(* Inputs: the dataset files and the query parameters *)

MaxRecords == 2
MaxTotal == 12

Urban ==
    Obj([zip |-> Str("10001"), city |-> Str("New York"), state |-> Str("NY"),
         population_density |-> Num(500), drive_time_city_100k_min |-> Num(60),
         drive_time_interstate_min |-> Num(30), is_mountain |-> Bool(FALSE),
         is_island |-> Bool(FALSE), winter_risk |-> Bool(FALSE),
         carrier_scarcity_index |-> Num(40)])

Remote ==
    Obj([zip |-> Str("59001"), city |-> Str("Absarokee"), state |-> Str("MT"),
         population_density |-> Num(100), drive_time_city_100k_min |-> Num(95),
         drive_time_interstate_min |-> Num(40), is_mountain |-> Bool(TRUE),
         is_island |-> Bool(FALSE), winter_risk |-> Bool(TRUE),
         carrier_scarcity_index |-> Num(80)])

\* a numeric zip whose string is Urban's key; no carrier index, no mountain flag
Island ==
    Obj([zip |-> Num(10001), city |-> Str("Island"),
         population_density |-> Num(499), drive_time_city_100k_min |-> Num(61),
         drive_time_interstate_min |-> Num(31), is_island |-> Bool(TRUE),
         winter_risk |-> Bool(TRUE)])

\* a record with no zip field
Unkeyed == Obj([city |-> Str("Nowhere"), population_density |-> Num(10)])

Catalogue == {Urban, Remote, Island, Unkeyed}

Arrays == UNION {[1..n -> Catalogue] : n \in 0..MaxRecords}

\* unreadable, not JSON, JSON that is no array, an array with a null entry after
\* a record, and every array of at most MaxRecords records of the catalogue
Files ==
    {Unreadable, Malformed, Json(Obj([zips |-> Arr(<<>>)])),
     Json(Arr(<<Urban, Null>>))}
        \cup {Json(Arr(a)) : a \in Arrays}

ZipParams == {Undefined, Str("10001"), Str("59001"), Str("constructor")}

MonthParams == {Undefined, Text(<<"4">>)}

\* the months the clock shows when a request arrives
ClockMonths == {1, 7}

NoRequest == [op |-> "none"]
NoResponse == [status |-> 0, body |-> [none |-> TRUE]]
NoLocal == [none |-> TRUE]
NoFile == [file |-> "none"]

---------------------------------------------------------------------------
(* The server, one action per handler *)

\* a handler begun while another has not ended
CanRunAnytime == TRUE

\* the event loop runs one handler at a time, each to its end
CanRun == running = {}

stepVars == <<running, raw, loadPos, local, seen, snapshot>>

Init ==
    /\ \E f \in Files :
          \E loaded \in {loadZipData(f, <<>>, EmptyObject)} :
              /\ zipData = loaded.zipData
              /\ zipIndex = loaded.zipIndex
              /\ log = loaded.log
              /\ snapshot = loaded.zipIndex
    /\ req = NoRequest
    /\ resp = NoResponse
    /\ running = {}
    /\ raw = NoFile
    /\ loadPos = 0
    /\ local = NoLocal
    /\ seen = <<>>

LocationScore ==
    /\ CanRun
    /\ \E zip \in ZipParams, month \in MonthParams, now \in ClockMonths :
          /\ req' = [op |-> "location-score", zip |-> zip, month |-> month]
          /\ resp' = locationScore(zipIndex, zip, month, now)
    /\ UNCHANGED <<zipData, zipIndex, log>>
    /\ UNCHANGED stepVars

TripScore ==
    /\ CanRun
    /\ \E pickup_zip \in ZipParams, delivery_zip \in ZipParams,
          month \in MonthParams, now \in ClockMonths :
          /\ req' = [op |-> "trip-score", pickup_zip |-> pickup_zip,
                     delivery_zip |-> delivery_zip, month |-> month]
          /\ resp' = tripScore(zipIndex, pickup_zip, delivery_zip, month, now)
    /\ UNCHANGED <<zipData, zipIndex, log>>
    /\ UNCHANGED stepVars

ReloadZips ==
    /\ CanRun
    /\ \E f \in Files :
          \E loaded \in {loadZipData(f, zipData, zipIndex)} :
              /\ zipData' = loaded.zipData
              /\ zipIndex' = loaded.zipIndex
              /\ log' = loaded.log
              /\ snapshot' = loaded.zipIndex
              /\ req' = [op |-> "reload-zips", file |-> f]
              /\ resp' = reloadZips(loaded.zipData)
    /\ UNCHANGED <<running, raw, loadPos, local, seen>>

Next == LocationScore \/ TripScore \/ ReloadZips

Spec == Init /\ [][Next]_vars

---------------------------------------------------------------------------
(* The server in steps: loadZipData yields a state after each record  *)
(* of zipData.forEach, /trip-score one between its two lookups. The   *)
(* handlers are synchronous, so the event loop begins none while      *)
(* another has begun and not ended (CanRun).                          *)

\* what a lookup reads, with the complete snapshots there are as it reads: the
\* one the last completed load left and the one the load in progress will leave
Observation ==
    [index |-> zipIndex,
     full |-> {snapshot} \cup
                 (IF "reload" \in running
                  THEN {loadZipData(raw, <<>>, EmptyObject).zipIndex}
                  ELSE {})]

StepLocationScore ==
    /\ CanRun
    /\ \E zip \in ZipParams, month \in MonthParams, now \in ClockMonths :
          /\ req' = [op |-> "location-score", zip |-> zip, month |-> month]
          /\ resp' = locationScore(zipIndex, zip, month, now)
          /\ seen' = IF Truthy(zip) THEN <<Observation>> ELSE <<>>
    /\ UNCHANGED <<zipData, zipIndex, log, running, raw, loadPos, local, snapshot>>

\* /trip-score up to const pickupRecord = zipIndex[String(pickup_zip)]
TripBegin ==
    /\ CanRun
    /\ "trip" \notin running
    /\ \E pickup_zip \in ZipParams, delivery_zip \in ZipParams,
          month \in MonthParams, now \in ClockMonths :
          /\ req' = [op |-> "trip-score", pickup_zip |-> pickup_zip,
                     delivery_zip |-> delivery_zip, month |-> month]
          /\ IF tripMissing(pickup_zip, delivery_zip)
             THEN /\ resp' = tripScore(zipIndex, pickup_zip, delivery_zip, month, now)
                  /\ seen' = <<>>
                  /\ UNCHANGED <<running, local>>
             ELSE /\ resp' = NoResponse
                  /\ local' = [pickup_zip |-> pickup_zip,
                               delivery_zip |-> delivery_zip,
                               monthNum |-> normalizeMonth(month, now),
                               pickupRecord |-> Lookup(zipIndex, String(pickup_zip))]
                  /\ seen' = <<Observation>>
                  /\ running' = running \cup {"trip"}
    /\ UNCHANGED <<zipData, zipIndex, log, raw, loadPos, snapshot>>

\* /trip-score from const deliveryRecord = zipIndex[String(delivery_zip)] on
TripEnd ==
    /\ "trip" \in running
    /\ resp' = tripRespond(local.pickup_zip, local.delivery_zip, local.monthNum,
                           local.pickupRecord,
                           Lookup(zipIndex, String(local.delivery_zip)))
    /\ seen' = Append(seen, Observation)
    /\ running' = running \ {"trip"}
    /\ local' = NoLocal
    /\ UNCHANGED <<zipData, zipIndex, log, req, raw, loadPos, snapshot>>

\* the catch block and the answer of /reload-zips after it
ReloadCaught(data, index) ==
    \E failed \in {loadFailed(data, index)} :
        /\ zipData' = failed.zipData
        /\ zipIndex' = failed.zipIndex
        /\ log' = failed.log
        /\ snapshot' = failed.zipIndex
        /\ resp' = reloadZips(failed.zipData)
        /\ loadPos' = 0

\* /reload-zips: readFileSync, JSON.parse, zipIndex = {}, up to the first record
ReloadBegin ==
    /\ CanRun
    /\ "reload" \notin running
    /\ \E f \in Files :
          /\ req' = [op |-> "reload-zips", file |-> f]
          /\ raw' = f
          /\ IF f.file # "json"
             THEN ReloadCaught(zipData, zipIndex) /\ UNCHANGED running
             ELSE IF ~IsArr(f.value)
             THEN ReloadCaught(f.value, EmptyObject) /\ UNCHANGED running
             ELSE /\ zipData' = f.value.arr
                  /\ zipIndex' = EmptyObject
                  /\ loadPos' = 1
                  /\ running' = running \cup {"reload"}
                  /\ resp' = NoResponse
                  /\ UNCHANGED <<log, snapshot>>
    /\ seen' = <<>>
    /\ UNCHANGED local

\* one record of zipData.forEach
ReloadRecord ==
    /\ "reload" \in running
    /\ loadPos <= Len(zipData)
    /\ \E next \in {indexRecord(zipIndex, zipData[loadPos])} :
          IF next = Throws
          THEN /\ ReloadCaught(zipData, zipIndex)
               /\ running' = running \ {"reload"}
          ELSE /\ zipIndex' = next
               /\ loadPos' = loadPos + 1
               /\ UNCHANGED <<zipData, log, resp, running, snapshot>>
    /\ UNCHANGED <<req, raw, local, seen>>

\* after the last record: console.log and the answer of /reload-zips
ReloadEnd ==
    /\ "reload" \in running
    /\ loadPos > Len(zipData)
    /\ \E loaded \in {loadSucceeded(zipData, zipIndex)} :
          /\ log' = loaded.log
          /\ resp' = reloadZips(loaded.zipData)
          /\ snapshot' = loaded.zipIndex
    /\ loadPos' = 0
    /\ running' = running \ {"reload"}
    /\ UNCHANGED <<zipData, zipIndex, req, raw, local, seen>>

StepNext ==
    \/ StepLocationScore
    \/ TripBegin
    \/ TripEnd
    \/ ReloadBegin
    \/ ReloadRecord
    \/ ReloadEnd

SpecSteps == Init /\ [][StepNext]_vars

---------------------------------------------------------------------------
(* The scoring engine alone: each behaviour is one call of one function *)

Densities == {Undefined, Null, Num(149), Num(150), Num(499), Num(500)}
CityDriveTimes == {Undefined, Num(60), Num(61), Num(90), Num(91)}
InterstateDriveTimes == {Undefined, Num(30), Num(31)}
Flags == {Undefined, Bool(TRUE)}
WinterFlags == {Undefined, Bool(FALSE), Bool(TRUE)}
Scarcities == {Undefined, Num(40), Num(41), Num(70), Num(71)}

EngineRecords ==
    {Obj([population_density |-> d, drive_time_city_100k_min |-> c,
          drive_time_interstate_min |-> i, is_mountain |-> mo, is_island |-> is,
          winter_risk |-> w, carrier_scarcity_index |-> k]) :
        d \in Densities, c \in CityDriveTimes, i \in InterstateDriveTimes,
        mo \in Flags, is \in Flags, w \in WinterFlags, k \in Scarcities}

Months == 1..12
Categories == {"URBAN_EASY", "NORMAL", "RURAL_DIFFICULT", "REMOTE_PREMIUM"}

MonthTexts ==
    {Undefined, Text(<<>>), Text(<<"0">>), Text(<<"1">>), Text(<<"3">>),
     Text(<<"0", "4">>), Text(<<"1", "1">>), Text(<<"1", "2">>),
     Text(<<"1", "3">>), Text(<<"-", "1">>), Text(<<"+", "9">>),
     Text(<<" ", "7">>), Text(<<"3", "x">>), Text(<<"a", "b", "c">>)}

EngineCalls ==
    {[op |-> "score", record |-> r, month |-> m] :
        r \in EngineRecords \cup {Null, Undefined}, m \in Months}
    \cup {[op |-> "categorize", total |-> t] : t \in 0..MaxTotal}
    \cup {[op |-> "surcharge", category |-> c] : c \in Categories \cup {"OTHER"}}
    \cup {[op |-> "combine", pickup |-> a, delivery |-> b] :
            a \in Categories, b \in Categories}
    \cup {[op |-> "normalizeMonth", month |-> t, now |-> n] :
            t \in MonthTexts, n \in Months}

EngineInit ==
    /\ req \in EngineCalls
    /\ resp = NoResponse
    /\ zipData = <<>>
    /\ zipIndex = EmptyObject
    /\ log = [level |-> "none"]
    /\ running = {}
    /\ raw = NoFile
    /\ loadPos = 0
    /\ local = NoLocal
    /\ seen = <<>>
    /\ snapshot = EmptyObject

engineUnchanged == <<zipData, zipIndex, log, req, stepVars>>

\* components, category and surcharge as the handlers chain them
Score ==
    /\ req.op = "score" /\ resp = NoResponse
    /\ \E components \in {computeRemotenessComponents(req.record, req.month)} :
          resp' = [components |-> components,
                   category |-> categorizeScore(components.totalScore),
                   suggested_surcharge |->
                       suggestedSurcharge(categorizeScore(components.totalScore))]
    /\ UNCHANGED engineUnchanged

Categorize ==
    /\ req.op = "categorize" /\ resp = NoResponse
    /\ resp' = [category |-> categorizeScore(req.total),
                suggested_surcharge |->
                    suggestedSurcharge(categorizeScore(req.total))]
    /\ UNCHANGED engineUnchanged

Surcharge ==
    /\ req.op = "surcharge" /\ resp = NoResponse
    /\ resp' = [suggested_surcharge |-> suggestedSurcharge(req.category)]
    /\ UNCHANGED engineUnchanged

Combine ==
    /\ req.op = "combine" /\ resp = NoResponse
    /\ resp' = [total_suggested_surcharge |->
                    totalSurchargeOf(suggestedSurcharge(req.pickup),
                                     suggestedSurcharge(req.delivery))]
    /\ UNCHANGED engineUnchanged

NormalizeMonth ==
    /\ req.op = "normalizeMonth" /\ resp = NoResponse
    /\ resp' = [month |-> normalizeMonth(req.month, req.now)]
    /\ UNCHANGED engineUnchanged

EngineNext == Score \/ Categorize \/ Surcharge \/ Combine \/ NormalizeMonth

SpecEngine == EngineInit /\ [][EngineNext]_vars

---------------------------------------------------------------------------
(* Properties of the scoring engine, checked under SpecEngine *)

Scored == req.op = "score" /\ resp # NoResponse
Present(v) == v # Undefined /\ v # Null
IsTrue(v) == v = Bool(TRUE)
Bonus(b) == IF b THEN 1 ELSE 0

(* C5, as the spec states it: for every record (absent fields and an absent
   record included) and every month 1-12, the total score is an integer in
   the range 0 to 8. *)
C5_TotalAtMost8 ==
    Scored => resp.components.totalScore \in 0..8

(* C5, amended: for every record and every month 1-12, the total score is an
   integer in the range 0 to 10 (2 for density, 3 for metro access, 3 for
   road and terrain, 2 for carrier). *)
C5_TotalAtMost10 ==
    Scored => resp.components.totalScore \in 0..10

C5_Witness ==
    Scored /\ resp.components.totalScore = 10

(* C6: for every record and month the total returned equals density +
   metroAccess + roadTerrain + carrier of the same result; for an absent
   record the four components and the total are 0, the category is URBAN_EASY
   and the surcharge is {0, 0}. *)
C6_TotalIsSum ==
    Scored =>
        /\ resp.components.totalScore =
              resp.components.densityScore + resp.components.metroAccessScore
              + resp.components.roadTerrainScore + resp.components.carrierScore
        /\ ~Present(req.record) =>
              /\ resp.components.densityScore = 0
              /\ resp.components.metroAccessScore = 0
              /\ resp.components.roadTerrainScore = 0
              /\ resp.components.carrierScore = 0
              /\ resp.components.totalScore = 0
              /\ resp.category = "URBAN_EASY"
              /\ resp.suggested_surcharge.min = 0
              /\ resp.suggested_surcharge.max = 0

C6_Witness ==
    /\ Scored
    /\ req.record = Null
    /\ resp.category = "URBAN_EASY"

RuleDensity(d) ==
    IF Present(d) /\ d.num < 150 THEN 2
    ELSE IF Present(d) /\ 150 <= d.num /\ d.num < 500 THEN 1
    ELSE 0

RuleMetroAccess(t, i) ==
    (IF Present(t) /\ t.num > 90 THEN 2
     ELSE IF Present(t) /\ 60 < t.num /\ t.num <= 90 THEN 1
     ELSE 0)
    + Bonus(Present(i) /\ i.num > 30)

\* the index in hundredths
RuleCarrier(idx) ==
    IF Present(idx) /\ idx.num > 70 THEN 2
    ELSE IF Present(idx) /\ 40 < idx.num /\ idx.num <= 70 THEN 1
    ELSE 0

WinterBonusApplies(r, month) ==
    IsTrue(r.winter_risk) /\ month \in {11, 12, 1, 2, 3}

RuleRoadTerrain(r, month) ==
    Bonus(IsTrue(r.is_mountain)) + Bonus(IsTrue(r.is_island))
    + Bonus(WinterBonusApplies(r, month))

(* C7: for every present record and month the four sub-scores equal the rule
   values: density 2 below 150, 1 from 150 to below 500, else 0 (0 when
   absent); metro access 2 above 90 minutes, 1 above 60 up to 90, plus 1 when
   the interstate is more than 30 minutes away; carrier 2 above 0.7, 1 above
   0.4 up to 0.7; road and terrain 1 per flag of mountain and island, plus a
   winter bonus of 1 if and only if the record has winter risk and the month
   is one of 11, 12, 1, 2, 3. *)
C7_SubScores ==
    (Scored /\ Present(req.record)) =>
        LET r == req.record.obj
            c == resp.components
        IN  /\ c.densityScore = RuleDensity(r.population_density)
            /\ c.metroAccessScore =
                  RuleMetroAccess(r.drive_time_city_100k_min,
                                  r.drive_time_interstate_min)
            /\ c.carrierScore = RuleCarrier(r.carrier_scarcity_index)
            /\ c.roadTerrainScore = RuleRoadTerrain(r, req.month)
            /\ (c.roadTerrainScore
                  - Bonus(IsTrue(r.is_mountain)) - Bonus(IsTrue(r.is_island)) = 1)
                  <=> WinterBonusApplies(r, req.month)
            /\ req.month = 4 =>
                  c.roadTerrainScore
                      = Bonus(IsTrue(r.is_mountain)) + Bonus(IsTrue(r.is_island))

\* the winter bonus alone, in the boundary month 3
C7_Witness ==
    /\ Scored
    /\ Present(req.record)
    /\ req.month = 3
    /\ IsTrue(req.record.obj.winter_risk)
    /\ ~IsTrue(req.record.obj.is_mountain)
    /\ ~IsTrue(req.record.obj.is_island)
    /\ req.record.obj.population_density = Num(150)
    /\ resp.components.roadTerrainScore = 1
    /\ resp.components.densityScore = 1

CategoryRanges ==
    [URBAN_EASY |-> 0..2, NORMAL |-> 3..4, RURAL_DIFFICULT |-> 5..6,
     REMOTE_PREMIUM |-> 7..MaxTotal]

SurchargeTable ==
    [URBAN_EASY |-> <<0, 0>>, NORMAL |-> <<25, 50>>,
     RURAL_DIFFICULT |-> <<75, 150>>, REMOTE_PREMIUM |-> <<150, 300>>]

TableRange(surcharge, category) ==
    /\ <<surcharge.min, surcharge.max>> = SurchargeTable[category]
    /\ 0 <= surcharge.min
    /\ surcharge.min <= surcharge.max

(* C8: every total score gets exactly one of the four categories, by the
   contiguous ranges 0-2 URBAN_EASY, 3-4 NORMAL, 5-6 RURAL_DIFFICULT, 7 and up
   REMOTE_PREMIUM; the surcharge is the table's range of the category alone,
   {0,0}, {25,50}, {75,150}, {150,300}, with 0 <= min <= max, whatever record
   produced the category. *)
C8_CategoryAndSurcharge ==
    /\ (req.op = "categorize" /\ resp # NoResponse) =>
          /\ resp.category \in Categories
          /\ \A c \in Categories :
                resp.category = c <=> req.total \in CategoryRanges[c]
          /\ TableRange(resp.suggested_surcharge, resp.category)
    /\ Scored =>
          /\ resp.category \in Categories
          /\ \A c \in Categories :
                resp.category = c
                    <=> resp.components.totalScore \in CategoryRanges[c]
          /\ TableRange(resp.suggested_surcharge, resp.category)
    /\ (req.op = "surcharge" /\ resp # NoResponse /\ req.category \in Categories)
          => TableRange(resp.suggested_surcharge, req.category)

C8_Witness ==
    /\ req.op = "categorize"
    /\ resp # NoResponse
    /\ req.total = 4
    /\ resp.category = "NORMAL"
    /\ resp.suggested_surcharge.max = 50

---------------------------------------------------------------------------
(* Properties of the store and the handlers, checked under Spec *)

Reloaded == req.op = "reload-zips"
\* the step is a reload whose load failed
FailedReloadStep == req'.op = "reload-zips" /\ log'.level = "error"
UnreadableOrUnparseable == {Unreadable, Malformed}

(* C1, as the spec states it: a reload that fails entirely leaves the previous
   snapshot in place: every identifier that resolved before the failed reload
   resolves to the same record after it, and the store is not emptied. *)
C1_FailedReloadKeepsStore ==
    [][FailedReloadStep =>
          /\ \A k \in DOMAIN zipIndex :
                Lookup(zipIndex', k) = Lookup(zipIndex, k)
          /\ zipIndex # EmptyObject => zipIndex' # EmptyObject]_vars

(* C1, amended: a reload that fails entirely (file unreadable, not JSON, no
   array, or an entry that is null) empties the store: afterwards zipData is
   empty and zipIndex has no entry, so no identifier that resolved to a record
   before the failed reload resolves to that record after it. *)
C1_FailedReloadEmptiesStore ==
    [][FailedReloadStep =>
          /\ zipData' = <<>>
          /\ zipIndex' = EmptyObject
          /\ \A k \in DOMAIN zipIndex : Lookup(zipIndex', k) # zipIndex[k]]_vars

C1_Witness ==
    /\ Reloaded
    /\ req.file \in UnreadableOrUnparseable
    /\ log.level = "error"
    /\ zipData = <<>>
    /\ zipIndex = EmptyObject

(* C2, as the spec states it: when the source is unreadable or unparseable at
   reload time the reload reports a failure to its caller, and never
   acknowledges such a reload as a successful one. *)
C2_FailedReloadReported ==
    (Reloaded /\ req.file \in UnreadableOrUnparseable) =>
        ~(resp.status = 200 /\ resp.body.status = "reloaded")

(* C2, amended: when the load fails at reload time the failure is written to
   the console only; the reload answers its caller 200 with status "reloaded"
   and total_zips 0, the answer of a successful reload of an empty dataset. *)
C2_FailedReloadAcknowledged ==
    (Reloaded /\ log.level = "error") =>
        /\ resp.status = 200
        /\ resp.body = [status |-> "reloaded", total_zips |-> 0]

C2_Witness ==
    /\ Reloaded
    /\ req.file = Malformed
    /\ log.level = "error"
    /\ resp.status = 200
    /\ resp.body.total_zips = 0

\* the identifier is no key of the current snapshot
Absent(zip) == String(zip) \notin DOMAIN zipIndex
NotFound(message) == resp.status = 404 /\ resp.body.error = message

(* C4: an identifier absent from the current snapshot is always surfaced as
   NotFound, never as a zero-score result, and in a trip request not-found is
   reported per identifier: a missing pickup and a missing delivery identifier
   are each reported whether or not the other one is found. *)
C4_AbsentIsNotFound ==
    /\ (req.op = "location-score" /\ Truthy(req.zip) /\ Absent(req.zip)) =>
          NotFound("ZIP " \o String(req.zip) \o " not found in dataset")
    /\ (req.op = "trip-score" /\ ~tripMissing(req.pickup_zip, req.delivery_zip)) =>
          /\ Absent(req.pickup_zip) =>
                NotFound("Pickup ZIP " \o String(req.pickup_zip)
                             \o " not found in dataset")
          /\ Absent(req.delivery_zip) =>
                NotFound("Delivery ZIP " \o String(req.delivery_zip)
                             \o " not found in dataset")

(* C9: for every trip whose two identifiers resolve, the trip surcharge is the
   element-wise sum of the surcharges of the two endpoints, each scored on its
   own record; two REMOTE_PREMIUM endpoints give {300, 600}; and the result is
   the same with pickup and delivery swapped. *)
C9_TripIsSum ==
    (req.op = "trip-score" /\ resp.status = 200) =>
        LET b == resp.body
            total == b.total_suggested_surcharge
            own(zip) == scored(Lookup(zipIndex, String(zip)), b.month)
            swapped == tripScore(zipIndex, req.delivery_zip, req.pickup_zip,
                                 req.month, b.month)
        IN  /\ total.min = b.pickup.suggested_surcharge.min
                              + b.delivery.suggested_surcharge.min
            /\ total.max = b.pickup.suggested_surcharge.max
                              + b.delivery.suggested_surcharge.max
            /\ total.currency = "USD"
            /\ b.pickup = own(req.pickup_zip)
            /\ b.delivery = own(req.delivery_zip)
            /\ (b.pickup.category = "REMOTE_PREMIUM"
                  /\ b.delivery.category = "REMOTE_PREMIUM") =>
                  (total.min = 300 /\ total.max = 600)
            /\ swapped.status = 200
            /\ swapped.body.total_suggested_surcharge = total

\* a REMOTE_PREMIUM pickup with an endpoint of another category, and the sum
C9_Witness ==
    /\ req.op = "trip-score"
    /\ resp.status = 200
    /\ resp.body.pickup.category = "REMOTE_PREMIUM"
    /\ resp.body.delivery.category = "NORMAL"
    /\ resp.body.total_suggested_surcharge.min = 175
    /\ resp.body.total_suggested_surcharge.max = 350

SucceededReload == Reloaded /\ log.level = "log"
Keyed(z) == Truthy(Get(z, "zip"))
KeyOf(z) == String(Get(z, "zip"))
\* the last entry of the array with the key
LastWithKey(arr, key) ==
    arr[CHOOSE i \in 1..Len(arr) :
            /\ Keyed(arr[i]) /\ KeyOf(arr[i]) = key
            /\ \A j \in (i + 1)..Len(arr) :
                  ~(Keyed(arr[j]) /\ KeyOf(arr[j]) = key)]

(* C10, as the spec states it: on a successful load the records without the
   key field are skipped and all keyed records are resolvable, and the count
   the reload reports is the number of records resolvable by lookup in the new
   snapshot. *)
C10_CountIsResolvable ==
    SucceededReload =>
        LET arr == req.file.value.arr
        IN  /\ \A i \in 1..Len(arr) :
                  Keyed(arr[i]) => Lookup(zipIndex, KeyOf(arr[i])) = arr[i]
            /\ \A i \in 1..Len(arr) :
                  ~Keyed(arr[i]) => \A k \in DOMAIN zipIndex : zipIndex[k] # arr[i]
            /\ resp.body.total_zips = Cardinality(DOMAIN zipIndex)

(* C10, amended: on a successful load the records without a zip are skipped
   without aborting the load and every key of a keyed record resolves, to the
   last record of the file with that key; the count the reload reports is the
   number of entries of the file, the skipped ones and the ones a later record
   with the same key replaced included, so it is at least the number of
   entries of the new zipIndex. *)
C10_CountIsFileLength ==
    SucceededReload =>
        LET arr == req.file.value.arr
        IN  /\ zipData = arr
            /\ DOMAIN zipIndex = {KeyOf(arr[i]) : i \in {j \in 1..Len(arr) : Keyed(arr[j])}}
            /\ \A k \in DOMAIN zipIndex : zipIndex[k] = LastWithKey(arr, k)
            /\ \A i \in 1..Len(arr) :
                  ~Keyed(arr[i]) => \A k \in DOMAIN zipIndex : zipIndex[k] # arr[i]
            /\ resp.status = 200
            /\ resp.body.status = "reloaded"
            /\ resp.body.total_zips = Len(arr)
            /\ resp.body.total_zips >= Cardinality(DOMAIN zipIndex)

\* a file with an unkeyed record before a keyed one
C10_Witness ==
    /\ SucceededReload
    /\ req.file = Json(Arr(<<Unkeyed, Urban>>))
    /\ DOMAIN zipIndex = {"10001"}
    /\ resp.body.total_zips = 2

---------------------------------------------------------------------------
(* Atomicity of the store's replacement, checked under SpecSteps *)

(* C3: under any interleaving of request handling with a reload the
   replacement of the store is atomic: every lookup, and both lookups of one
   trip request, reads either the old snapshot in full or the new snapshot in
   full, never an empty or partly filled index in between. *)
C3_LookupsSeeFullSnapshot ==
    /\ \A i \in 1..Len(seen) : seen[i].index \in seen[i].full
    /\ \A i \in 1..Len(seen), j \in 1..Len(seen) : seen[i].index = seen[j].index
    /\ running = {} => zipIndex = snapshot

\* a trip answered from both its lookups after a reload of two records
C3_Witness ==
    /\ running = {}
    /\ req.op = "trip-score"
    /\ resp.status = 200
    /\ Len(seen) = 2
    /\ raw = Json(Arr(<<Urban, Remote>>))
    /\ seen[2].index = zipIndex
    /\ DOMAIN zipIndex = {"10001", "59001"}

\* the load in steps ends as the load in one piece does
StepsAgree ==
    (running = {} /\ req.op = "reload-zips") =>
        \E loaded \in {loadZipData(raw, <<>>, EmptyObject)} :
            /\ zipData = loaded.zipData
            /\ zipIndex = loaded.zipIndex
            /\ log = loaded.log
            /\ resp = reloadZips(loaded.zipData)

=============================================================================
